---- MODULE Spec2Model ----
(***************************************************************************)
(* Model of the BLE audio peripheral: the segmented capture loop of        *)
(* AudioRecorder (server.py and its standalone twin record.py), the        *)
(* module-level hand-off queue file_queue, and the GATT characteristic's   *)
(* ReadValue / StartNotify / StopNotify handlers (server.py).              *)
(*                                                                         *)
(* Two execution contexts are modelled: the main thread (the asyncio loop  *)
(* that runs the D-Bus handlers one at a time, or the caller of the        *)
(* recorder API in record.py) and the capture threads created by           *)
(* start_recording.  A handler that blocks (stop_recording's join) or that *)
(* touches state shared with the capture thread (ReadValue) is split at    *)
(* the points where the capture thread can run in between; main_pc is the  *)
(* main thread's position inside such a handler.                           *)
(***************************************************************************)
EXTENDS Integers, Sequences, FiniteSets, TLC

(* ------------------------------ bounds --------------------------------- *)
\* number of distinct D-Bus senders (sessions)
NumSenders == 2
\* number of Thread objects start_recording may create in one run
MaxThreads == 2
\* number of time-boxes whose stream is opened in one run
MaxBoxes == 2
\* blocks per full time-box; stands for int(RATE / CHUNK * RECORD_SECONDS)
BlocksPerBox == 2
\* number of environment faults (device, storage) injected in one run
MaxFaults == 1

(* -------------------------- program constants -------------------------- *)
\* frames per block: CHUNK
CHUNK == 8192
\* CHANNELS
CHANNELS == 1
\* bytes per sample of FORMAT = pyaudio.paInt16
SampleWidth == 2
\* bytes of the RIFF/WAVE header that wave.open(..., 'wb') puts before the frames
WavHeader == 44
\* f.read(512) in ReadValue
ReadSize == 512

Senders == 1..NumSenders
Threads == 1..MaxThreads
\* audio_<timestamp>.wav, named by the second in which its time-box began.  Only the
\* equality of two timestamps matters, so a second is named by the number of the first
\* time-box that began in it.
FileNames == 1..MaxBoxes
NoFile == [seq |-> 0, nblocks |-> 0, closed |-> FALSE, exists |-> FALSE]
\* a step's record: the operation, how many sessions were subscribed before it, whether
\* its sender was one of them, the recorder method it called, how it ended, bytes returned
NoEv == [op |-> "none", npre |-> 0, member |-> FALSE, called |-> "none", ret |-> "none",
         len |-> 0]
EmptyValue == [seq |-> 0, off |-> 0, len |-> 0]
\* a capture thread: its position in _record_continuously and its locals (timestamp,
\* len(frames), whether `stream` is open, how the for loop ended, the Segment's number)
Unborn == [pc |-> "unborn", ts |-> 0, frames |-> 0, stream |-> FALSE, why |-> "none",
           seq |-> 0]
Ended == [Unborn EXCEPT !.pc = "done"]
NoCur == [fn |-> 0, seq |-> 0, nblocks |-> 0]

Min(a, b) == IF a <= b THEN a ELSE b

VARIABLES
  prog,              \* which program runs: "server" (server.py) or "record" (record.py)
  clients,           \* GATTCharacteristic._clients
  value,             \* GATTCharacteristic._value, as the chunk it holds
  is_recording,      \* AudioRecorder.is_recording
  recording_thread,  \* AudioRecorder.recording_thread: 0 for None, else a thread
  p_terminated,      \* whether self.p.terminate() has been called on the PyAudio handle
  file_queue,        \* the module-level queue.Queue of file names
  files,             \* the recordings directory: file name -> file
  thr,               \* the capture threads: position and locals of _record_continuously
  nthreads,          \* Thread objects created so far
  nboxes,            \* time-boxes opened so far (the Segment sequence number)
  now,               \* the second of the last time-box, while it can still be the current
                     \* second of the wall clock; 0 when it cannot
  faults,            \* faults injected so far
  main_pc,           \* position of the main thread inside a handler
  cur,               \* ReadValue's local `filename` (with the Segment it was queued for)
  closedSegs,        \* history: Segments whose file has been written and closed
  popped,            \* history: one record per queue.get() of ReadValue
  subscribed,        \* history: StartNotify has been called
  ev                 \* history: what the last step did

vars == <<prog, clients, value, is_recording, recording_thread, p_terminated,
          file_queue, files, thr, nthreads, nboxes, now, faults, main_pc, cur,
          closedSegs, popped, subscribed, ev>>

\* the recorder and its threads
recorderSide == <<is_recording, recording_thread, p_terminated, thr, nthreads>>

\* bytes of a closed wave file holding n blocks
SegLen(n) == WavHeader + n * CHUNK * CHANNELS * SampleWidth
\* bytes of file f once it is written and closed
FileLen(f) == SegLen(f.nblocks)

Alive(t) == thr[t].pc \notin {"unborn", "done"}
LiveThreads == {t \in Threads : Alive(t)}

(* ------------------------------- Init ---------------------------------- *)
\* AudioRecorder.__init__
RecorderInit ==
  /\ is_recording = FALSE
  /\ p_terminated = FALSE
  /\ recording_thread = 0

\* GATTCharacteristic.__init__
CharacteristicInit ==
  /\ value = EmptyValue
  /\ clients = {}

Init ==
  /\ prog \in {"server", "record"}
  /\ RecorderInit
  /\ CharacteristicInit
  /\ file_queue = <<>>
  /\ files = [n \in FileNames |-> NoFile]
  /\ thr = [t \in Threads |-> Unborn]
  /\ nthreads = 0
  /\ nboxes = 0
  /\ now = 0
  /\ faults = 0
  /\ main_pc = "idle"
  /\ cur = NoCur
  /\ closedSegs = {}
  /\ popped = <<>>
  /\ subscribed = FALSE
  /\ ev = NoEv

(* -------------------- AudioRecorder: start and stop --------------------- *)
\* threading.Thread(target=self._record_continuously).start()
ThreadStart ==
  /\ nthreads < MaxThreads
  /\ nthreads' = nthreads + 1
  /\ recording_thread' = nthreads + 1
  /\ thr' = [thr EXCEPT ![nthreads + 1] = [Unborn EXCEPT !.pc = "while"]]

\* mutant: start_recording without its `if not self.is_recording` guard
start_recording_unguarded ==
  /\ is_recording' = TRUE
  /\ ThreadStart

\* start_recording of server.py
start_recording ==
  IF ~is_recording
  THEN /\ is_recording' = TRUE
       /\ ThreadStart
  ELSE UNCHANGED <<is_recording, recording_thread, nthreads, thr>>

\* start_recording of record.py; ok: the test stream opened (p.open did not raise)
start_recording_rec(ok) ==
  IF ~is_recording /\ ok
  THEN /\ is_recording' = TRUE
       /\ ThreadStart
  ELSE UNCHANGED <<is_recording, recording_thread, nthreads, thr>>

\* mutant: stop_recording without recording_thread.join()
stop_recording_nojoin ==
  IF is_recording
  THEN /\ is_recording' = FALSE
       /\ main_pc' = "idle"
       /\ p_terminated' = TRUE
  ELSE UNCHANGED <<is_recording, p_terminated, main_pc>>

\* stop_recording up to the point where it blocks in recording_thread.join()
stop_recording ==
  IF is_recording
  THEN /\ is_recording' = FALSE
       /\ IF recording_thread # 0
          THEN main_pc' = "join" /\ UNCHANGED p_terminated
          ELSE main_pc' = "idle" /\ p_terminated' = TRUE
  ELSE UNCHANGED <<is_recording, p_terminated, main_pc>>

\* mutant: join() returns without waiting for the thread's end
JoinReturn_early ==
  /\ main_pc = "join"
  /\ main_pc' = "idle"
  /\ p_terminated' = TRUE
  /\ ev' = [NoEv EXCEPT !.op = "join_return", !.called = "stop_recording", !.ret = "return"]
  /\ UNCHANGED <<prog, subscribed, clients, value, is_recording, recording_thread, file_queue, files,
                 thr, nthreads, nboxes, now, faults, cur, closedSegs, popped>>

\* recording_thread.join() returns once the thread has ended; then self.p.terminate()
JoinReturn ==
  /\ main_pc = "join"
  /\ thr[recording_thread].pc = "done"
  /\ main_pc' = "idle"
  /\ p_terminated' = TRUE
  /\ ev' = [NoEv EXCEPT !.op = "join_return", !.called = "stop_recording", !.ret = "return"]
  /\ UNCHANGED <<prog, subscribed, clients, value, is_recording, recording_thread, file_queue, files,
                 thr, nthreads, nboxes, now, faults, cur, closedSegs, popped>>

(* --------------------- _record_continuously (the thread) ---------------- *)
\* while self.is_recording:
WhileCheck(t) ==
  /\ thr[t].pc = "while"
  /\ IF is_recording
     THEN /\ nboxes < MaxBoxes
          /\ thr' = [thr EXCEPT ![t].pc = "open"]
     ELSE thr' = [thr EXCEPT ![t] = Ended]
  /\ ev' = NoEv
  /\ UNCHANGED <<prog, subscribed, clients, value, is_recording, recording_thread,
                 p_terminated, file_queue, files, nthreads, nboxes, now, faults, main_pc,
                 cur, closedSegs, popped>>

\* timestamp = datetime.now() to the second; filename = audio_<timestamp>.wav;
\* stream = self.p.open(...); frames = [].  The timestamp is that of the time-box before
\* when the clock still shows that second, and a new one otherwise; it is used only if
\* the stream opens.
OpenStream(t) ==
  /\ thr[t].pc = "open"
  /\ \/ /\ ~p_terminated
        /\ \E c \in {now, nboxes + 1} \ {0} :
             /\ now' = c
             /\ thr' = [thr EXCEPT ![t].pc = "for", ![t].stream = TRUE, ![t].frames = 0,
                                   ![t].why = "none", ![t].seq = nboxes + 1, ![t].ts = c]
        /\ nboxes' = nboxes + 1
        /\ UNCHANGED faults
     \/ \* p.open raises (always on a terminated handle): the outer except, then the loop
        /\ p_terminated \/ faults < MaxFaults
        /\ faults' = IF p_terminated THEN faults ELSE faults + 1
        /\ thr' = [thr EXCEPT ![t].pc = "while", ![t].why = "none"]
        /\ UNCHANGED <<nboxes, now>>
  /\ ev' = NoEv
  /\ UNCHANGED <<prog, subscribed, clients, value, is_recording, recording_thread,
                 p_terminated, file_queue, files, nthreads, main_pc, cur, closedSegs,
                 popped>>

\* mutant: the for loop without `if not self.is_recording: break`
ForCheck_nobreak(t) ==
  /\ thr[t].pc = "for"
  /\ thr' = IF thr[t].frames = BlocksPerBox
            THEN [thr EXCEPT ![t].pc = "close", ![t].why = "full"]
            ELSE [thr EXCEPT ![t].pc = "read"]
  /\ ev' = NoEv
  /\ UNCHANGED <<prog, subscribed, clients, value, is_recording, recording_thread, p_terminated,
                 file_queue, files, nthreads, nboxes, now, faults, main_pc, cur,
                 closedSegs, popped>>

\* for _ in range(...): if not self.is_recording: break
ForCheck(t) ==
  /\ thr[t].pc = "for"
  /\ thr' = IF thr[t].frames = BlocksPerBox
            THEN [thr EXCEPT ![t].pc = "close", ![t].why = "full"]
            ELSE IF ~is_recording
                 THEN [thr EXCEPT ![t].pc = "close", ![t].why = "stop"]
                 ELSE [thr EXCEPT ![t].pc = "read"]
  /\ ev' = NoEv
  /\ UNCHANGED <<prog, subscribed, clients, value, is_recording, recording_thread, p_terminated,
                 file_queue, files, nthreads, nboxes, now, faults, main_pc, cur,
                 closedSegs, popped>>

\* mutant: a read error leaves the time-box without closing its stream
ReadBlock_leak(t) ==
  /\ thr[t].pc = "read"
  /\ \/ /\ thr' = [thr EXCEPT ![t].pc = "for", ![t].frames = @ + 1]
        /\ now' = IF thr[t].frames + 1 = BlocksPerBox THEN 0 ELSE now
        /\ UNCHANGED faults
     \/ /\ faults < MaxFaults
        /\ faults' = faults + 1
        /\ thr' = [thr EXCEPT ![t].pc = "while", ![t].why = "readerr"]
        /\ UNCHANGED now
  /\ ev' = NoEv
  /\ UNCHANGED <<prog, subscribed, clients, value, is_recording, recording_thread,
                 p_terminated, file_queue, files, nthreads, nboxes, main_pc, cur,
                 closedSegs, popped>>

\* data = stream.read(CHUNK); frames.append(data).  The blocks of a full time-box take
\* RECORD_SECONDS to read: when the last one is in, the second the box began in is over.
ReadBlock(t) ==
  /\ thr[t].pc = "read"
  /\ \/ /\ thr' = [thr EXCEPT ![t].pc = "for", ![t].frames = @ + 1]
        /\ now' = IF thr[t].frames + 1 = BlocksPerBox THEN 0 ELSE now
        /\ UNCHANGED faults
     \/ \* stream.read raises: break
        /\ faults < MaxFaults
        /\ faults' = faults + 1
        /\ thr' = [thr EXCEPT ![t].pc = "close", ![t].why = "readerr"]
        /\ UNCHANGED now
  /\ ev' = NoEv
  /\ UNCHANGED <<prog, subscribed, clients, value, is_recording, recording_thread,
                 p_terminated, file_queue, files, nthreads, nboxes, main_pc, cur,
                 closedSegs, popped>>

\* mutant: the blocks of a time-box that a read error ended are dropped
CloseStream_dropOnError(t) ==
  /\ thr[t].pc = "close"
  /\ thr' = [thr EXCEPT ![t].stream = FALSE,
                        ![t].pc = IF thr[t].frames > 0 /\ thr[t].why # "readerr"
                                  THEN "wopen" ELSE "while"]
  /\ ev' = NoEv
  /\ UNCHANGED <<prog, subscribed, clients, value, is_recording, recording_thread,
                 p_terminated, file_queue, files, nthreads, nboxes, now, faults, main_pc,
                 cur, closedSegs, popped>>

\* mutant: the file is written whether or not any block was captured
CloseStream_saveEmpty(t) ==
  /\ thr[t].pc = "close"
  /\ thr' = [thr EXCEPT ![t].stream = FALSE, ![t].pc = "wopen"]
  /\ ev' = NoEv
  /\ UNCHANGED <<prog, subscribed, clients, value, is_recording, recording_thread,
                 p_terminated, file_queue, files, nthreads, nboxes, now, faults, main_pc,
                 cur, closedSegs, popped>>

\* stream.stop_stream(); stream.close(); if frames:
CloseStream(t) ==
  /\ thr[t].pc = "close"
  /\ thr' = [thr EXCEPT ![t].stream = FALSE,
                        ![t].pc = IF thr[t].frames > 0 THEN "wopen" ELSE "while"]
  /\ ev' = NoEv
  /\ UNCHANGED <<prog, subscribed, clients, value, is_recording, recording_thread, p_terminated,
                 file_queue, files, nthreads, nboxes, now, faults, main_pc, cur,
                 closedSegs, popped>>

\* wf = wave.open(filename, 'wb'): creates the file, or truncates the one of that name;
\* until wf.close() the file holds some part of the nblocks it is being written with
WaveOpen(t) ==
  /\ thr[t].pc = "wopen"
  /\ \/ /\ files' = [files EXCEPT ![thr[t].ts] =
                       [seq |-> thr[t].seq, nblocks |-> thr[t].frames, closed |-> FALSE,
                        exists |-> TRUE]]
        /\ thr' = [thr EXCEPT ![t].pc = "write"]
        /\ UNCHANGED faults
     \/ \* wave.open raises: the outer except, then the loop
        /\ faults < MaxFaults
        /\ faults' = faults + 1
        /\ thr' = [thr EXCEPT ![t].pc = "while"]
        /\ UNCHANGED files
  /\ ev' = NoEv
  /\ UNCHANGED <<prog, subscribed, clients, value, is_recording, recording_thread, p_terminated,
                 file_queue, nthreads, nboxes, now, main_pc, cur, closedSegs, popped>>

\* wf.setnchannels ... wf.writeframes(b''.join(frames)); wf.close()
\* (a file unlinked meanwhile is written through the open handle and stays unlinked)
WaveWrite(t) ==
  /\ thr[t].pc = "write"
  /\ \/ /\ files' = IF files[thr[t].ts].exists /\ files[thr[t].ts].seq = thr[t].seq
                    THEN [files EXCEPT ![thr[t].ts].closed = TRUE]
                    ELSE files
        /\ closedSegs' = closedSegs \cup {thr[t].seq}
        /\ thr' = [thr EXCEPT ![t].pc = "put"]
        /\ UNCHANGED faults
     \/ \* writeframes raises: the outer except, then the loop; the file stays as it is
        /\ faults < MaxFaults
        /\ faults' = faults + 1
        /\ thr' = [thr EXCEPT ![t].pc = "while"]
        /\ UNCHANGED <<files, closedSegs>>
  /\ ev' = NoEv
  /\ UNCHANGED <<prog, subscribed, clients, value, is_recording, recording_thread, p_terminated,
                 file_queue, nthreads, nboxes, now, main_pc, cur, popped>>

\* file_queue.put(filename)  (then logging; getsize of a file deleted meanwhile raises
\* into the outer except, which logs and goes on with the loop as well)
QueuePut(t) ==
  /\ thr[t].pc = "put"
  /\ file_queue' = Append(file_queue,
                     [fn |-> thr[t].ts, seq |-> thr[t].seq, nblocks |-> thr[t].frames])
  /\ thr' = [thr EXCEPT ![t].pc = "while"]
  /\ ev' = NoEv
  /\ UNCHANGED <<prog, subscribed, clients, value, is_recording, recording_thread, p_terminated,
                 files, nthreads, nboxes, now, faults, main_pc, cur, closedSegs, popped>>

(* ------------------- GATTCharacteristic (server.py) --------------------- *)
\* StartNotify: self._clients.add(sender); if len(self._clients) == 1: start_recording()
StartNotify(s) ==
  /\ prog = "server"
  /\ main_pc = "idle"
  /\ clients' = clients \cup {s}
  /\ subscribed' = TRUE
  /\ IF Cardinality(clients') = 1
     THEN /\ start_recording
          /\ ev' = [NoEv EXCEPT !.op = "StartNotify", !.npre = Cardinality(clients),
                                !.member = (s \in clients),
                                !.called = "start_recording", !.ret = "return"]
     ELSE /\ UNCHANGED <<is_recording, recording_thread, nthreads, thr>>
          /\ ev' = [NoEv EXCEPT !.op = "StartNotify", !.npre = Cardinality(clients),
                                !.member = (s \in clients),
                                !.ret = "return"]
  /\ UNCHANGED <<prog, value, p_terminated, file_queue, files, nboxes, now, faults,
                 main_pc, cur, closedSegs, popped>>

\* mutant: StopNotify stops the recorder whoever is left
StopNotify_always(s) ==
  /\ prog = "server"
  /\ main_pc = "idle"
  /\ clients' = clients \ {s}
  /\ stop_recording
  /\ ev' = [NoEv EXCEPT !.op = "StopNotify", !.npre = Cardinality(clients),
                        !.member = (s \in clients), !.called = "stop_recording",
                        !.ret = IF is_recording THEN "join" ELSE "return"]
  /\ UNCHANGED <<prog, subscribed, value, recording_thread, file_queue, files, thr,
                 nthreads, nboxes, now, faults, cur, closedSegs, popped>>

\* StopNotify: self._clients.discard(sender); if not self._clients: stop_recording()
StopNotify(s) ==
  /\ prog = "server"
  /\ main_pc = "idle"
  /\ clients' = clients \ {s}
  /\ IF clients' = {}
     THEN /\ stop_recording
          /\ ev' = [NoEv EXCEPT !.op = "StopNotify", !.npre = Cardinality(clients),
                                !.member = (s \in clients),
                                !.called = "stop_recording",
                                !.ret = IF is_recording THEN "join" ELSE "return"]
     ELSE /\ UNCHANGED <<is_recording, p_terminated, main_pc>>
          /\ ev' = [NoEv EXCEPT !.op = "StopNotify", !.npre = Cardinality(clients),
                                !.member = (s \in clients),
                                !.ret = "return"]
  /\ UNCHANGED <<prog, subscribed, value, recording_thread, file_queue, files, thr, nthreads, nboxes,
                 now, faults, cur, closedSegs, popped>>

\* how many bytes f.read(512) can return from file f: of a closed file its first 512;
\* of a file that is being written what is there of them, from none to all
ReadLens(f) ==
  IF f.closed THEN {Min(ReadSize, FileLen(f))} ELSE {0, Min(ReadSize, FileLen(f))}

\* the bytes f.read(512) returns, as the chunk: whose data, from which offset, how many
ReadChunk(f, n) == [seq |-> f.seq, off |-> 0, len |-> n]

\* mutant: a poll starts the recorder
ReadValueCheck_starts ==
  /\ prog = "server"
  /\ main_pc = "idle"
  /\ start_recording
  /\ IF file_queue = <<>>
     THEN /\ ev' = [NoEv EXCEPT !.op = "ReadValue", !.ret = "empty"]
          /\ UNCHANGED main_pc
     ELSE /\ ev' = NoEv
          /\ main_pc' = "rv_get"
  /\ UNCHANGED <<prog, subscribed, clients, value, p_terminated, file_queue, files,
                 nboxes, now, faults, cur, closedSegs, popped>>

\* ReadValue, `if not file_queue.empty():` and the `else` branch with `return []`
ReadValueCheck ==
  /\ prog = "server"
  /\ main_pc = "idle"
  /\ IF file_queue = <<>>
     THEN /\ ev' = [NoEv EXCEPT !.op = "ReadValue", !.ret = "empty"]
          /\ UNCHANGED main_pc
     ELSE /\ ev' = NoEv
          /\ main_pc' = "rv_get"
  /\ UNCHANGED <<prog, subscribed, clients, value, is_recording, recording_thread, p_terminated,
                 file_queue, files, thr, nthreads, nboxes, now, faults, cur,
                 closedSegs, popped>>

\* ReadValue, filename = file_queue.get(); open(filename, 'rb'); data = f.read(512);
\* self._value = list(data).  queue.get() blocks while the queue is empty.
ReadValueGet ==
  /\ main_pc = "rv_get"
  /\ file_queue # <<>>
  /\ file_queue' = Tail(file_queue)
  /\ LET item == Head(file_queue)
         took(chunk) == Append(popped, [seq |-> item.seq, total |-> SegLen(item.nblocks),
                                        chunk |-> chunk, deleted |-> FALSE])
     IN  \/ /\ files[item.fn].exists
            /\ cur' = item
            /\ \E n \in ReadLens(files[item.fn]) : value' = ReadChunk(files[item.fn], n)
            /\ main_pc' = "rv_remove"
            /\ popped' = took(value')
            /\ ev' = NoEv
            /\ UNCHANGED faults
         \/ \* FileNotFoundError: logged, return []
            /\ ~files[item.fn].exists
            /\ main_pc' = "idle"
            /\ popped' = took(EmptyValue)
            /\ ev' = [NoEv EXCEPT !.op = "ReadValue", !.ret = "missing"]
            /\ UNCHANGED <<value, cur, faults>>
         \/ \* open or read raises another OSError: it leaves ReadValue
            /\ files[item.fn].exists
            /\ faults < MaxFaults
            /\ faults' = faults + 1
            /\ main_pc' = "idle"
            /\ popped' = took(EmptyValue)
            /\ ev' = [NoEv EXCEPT !.op = "ReadValue", !.ret = "raise"]
            /\ UNCHANGED <<value, cur>>
  /\ UNCHANGED <<prog, subscribed, clients, is_recording, recording_thread, p_terminated,
                 files, thr, nthreads, nboxes, now, closedSegs>>

\* mutant: a poll that has delivered a chunk forgets the subscribers
ReadValueRemove_forgets ==
  /\ main_pc = "rv_remove"
  /\ \/ /\ files[cur.fn].exists
        /\ files' = [files EXCEPT ![cur.fn] = NoFile]
        /\ popped' = [popped EXCEPT ![Len(popped)].deleted = TRUE]
        /\ UNCHANGED faults
     \/ /\ faults < MaxFaults
        /\ faults' = faults + 1
        /\ UNCHANGED <<files, popped>>
  /\ main_pc' = "idle"
  /\ cur' = NoCur
  /\ clients' = {}
  /\ ev' = [NoEv EXCEPT !.op = "ReadValue", !.ret = "data", !.len = value.len]
  /\ UNCHANGED <<prog, subscribed, value, is_recording, recording_thread,
                 p_terminated, file_queue, thr, nthreads, nboxes, now, closedSegs>>

\* ReadValue, os.remove(filename) in its try/except OSError; return self._value
ReadValueRemove ==
  /\ main_pc = "rv_remove"
  /\ \/ /\ files[cur.fn].exists
        /\ files' = [files EXCEPT ![cur.fn] = NoFile]
        /\ popped' = [popped EXCEPT ![Len(popped)].deleted = TRUE]
        /\ UNCHANGED faults
     \/ \* os.remove raises OSError: logged
        /\ faults < MaxFaults
        /\ faults' = faults + 1
        /\ UNCHANGED <<files, popped>>
  /\ main_pc' = "idle"
  /\ cur' = NoCur
  /\ ev' = [NoEv EXCEPT !.op = "ReadValue", !.ret = "data", !.len = value.len]
  /\ UNCHANGED <<prog, subscribed, clients, value, is_recording, recording_thread,
                 p_terminated, file_queue, thr, nthreads, nboxes, now, closedSegs>>

(* --------------------- the recorder API of record.py -------------------- *)
\* start_recording of record.py: the test stream is opened first, and its failure
\* (always, on a terminated handle) is re-raised to the caller
RecStart ==
  /\ prog = "record"
  /\ main_pc = "idle"
  /\ \/ /\ is_recording \/ ~p_terminated
        /\ start_recording_rec(TRUE)
        /\ ev' = [NoEv EXCEPT !.op = "start_recording", !.called = "start_recording",
                              !.ret = "return"]
        /\ UNCHANGED faults
     \/ /\ ~is_recording
        /\ p_terminated \/ faults < MaxFaults
        /\ faults' = IF p_terminated THEN faults ELSE faults + 1
        /\ start_recording_rec(FALSE)
        /\ ev' = [NoEv EXCEPT !.op = "start_recording", !.called = "start_recording",
                              !.ret = "raise"]
  /\ UNCHANGED <<prog, subscribed, clients, value, p_terminated, file_queue, files, nboxes, now,
                 main_pc, cur, closedSegs, popped>>

\* stop_recording called by the owner of the recorder (run_recorder's finally)
RecStop ==
  /\ prog = "record"
  /\ main_pc = "idle"
  /\ stop_recording
  /\ ev' = [NoEv EXCEPT !.op = "stop_recording", !.called = "stop_recording",
                        !.ret = IF is_recording THEN "join" ELSE "return"]
  /\ UNCHANGED <<prog, subscribed, clients, value, recording_thread, file_queue, files, thr, nthreads,
                 nboxes, now, faults, cur, closedSegs, popped>>

\* mutant: get_next_file without `if not file_queue.empty():`
GetNextFileCheck_nocheck ==
  /\ prog = "record"
  /\ main_pc = "idle"
  /\ ev' = NoEv
  /\ main_pc' = "gnf_get"
  /\ UNCHANGED <<prog, subscribed, clients, value, is_recording, recording_thread, p_terminated,
                 file_queue, files, thr, nthreads, nboxes, now, faults, cur,
                 closedSegs, popped>>

\* get_next_file, `if not file_queue.empty():` and `return None`
GetNextFileCheck ==
  /\ prog = "record"
  /\ main_pc = "idle"
  /\ IF file_queue = <<>>
     THEN /\ ev' = [NoEv EXCEPT !.op = "get_next_file", !.ret = "empty"]
          /\ UNCHANGED main_pc
     ELSE /\ ev' = NoEv
          /\ main_pc' = "gnf_get"
  /\ UNCHANGED <<prog, subscribed, clients, value, is_recording, recording_thread, p_terminated,
                 file_queue, files, thr, nthreads, nboxes, now, faults, cur,
                 closedSegs, popped>>

\* get_next_file, `return file_queue.get()`
GetNextFileGet ==
  /\ main_pc = "gnf_get"
  /\ file_queue # <<>>
  /\ file_queue' = Tail(file_queue)
  /\ main_pc' = "idle"
  /\ popped' = Append(popped, [seq |-> Head(file_queue).seq,
                               total |-> SegLen(Head(file_queue).nblocks),
                               chunk |-> EmptyValue, deleted |-> FALSE])
  /\ ev' = [NoEv EXCEPT !.op = "get_next_file", !.ret = "data"]
  /\ UNCHANGED <<prog, subscribed, clients, value, is_recording, recording_thread,
                 p_terminated, files, thr, nthreads, nboxes, now, faults, cur, closedSegs>>

(* ------------------------------- Next ----------------------------------- *)
Next ==
  \/ \E s \in Senders : StartNotify(s)
  \/ \E s \in Senders : StopNotify(s)
  \/ ReadValueCheck
  \/ ReadValueGet
  \/ ReadValueRemove
  \/ RecStart
  \/ RecStop
  \/ GetNextFileCheck
  \/ GetNextFileGet
  \/ JoinReturn
  \/ \E t \in Threads : WhileCheck(t)
  \/ \E t \in Threads : OpenStream(t)
  \/ \E t \in Threads : ForCheck(t)
  \/ \E t \in Threads : ReadBlock(t)
  \/ \E t \in Threads : CloseStream(t)
  \/ \E t \in Threads : WaveOpen(t)
  \/ \E t \in Threads : WaveWrite(t)
  \/ \E t \in Threads : QueuePut(t)

Spec == Init /\ [][Next]_vars

\* one step of capture thread t in _record_continuously
ThreadStep(t) ==
  \/ WhileCheck(t)
  \/ OpenStream(t)
  \/ ForCheck(t)
  \/ ReadBlock(t)
  \/ CloseStream(t)
  \/ WaveOpen(t)
  \/ WaveWrite(t)
  \/ QueuePut(t)

\* the running program: a started thread is scheduled and each of its blocking calls
\* (stream.read, the file operations) returns or raises; join() returns once its thread
\* has ended; a handler that has begun runs to its end
FairSpec ==
  /\ Spec
  /\ \A t \in Threads : WF_vars(ThreadStep(t))
  /\ WF_vars(JoinReturn)
  /\ WF_vars(ReadValueGet)
  /\ WF_vars(ReadValueRemove)
  /\ WF_vars(GetNextFileGet)

(* ============================== claims ================================== *)
\* capture can produce Segments: the flag is set, the thread of the current cycle runs,
\* and the PyAudio handle it opens its streams on is usable
CaptureActive ==
  /\ is_recording
  /\ recording_thread # 0
  /\ Alive(recording_thread)
  /\ ~p_terminated

\* the handlers of server.py are between calls
ServerIdle == prog = "server" /\ main_pc = "idle"

\* C1: once the polls for a queued Segment of L bytes are over, the non-empty chunks
\* they returned are that Segment's bytes from offset 0 to L, without gap or overlap
\* (so the last one is L mod 512 bytes long, or 512).  ReadValue serves a popped file
\* in one poll, so those chunks are the one chunk of that poll.  (Stated for runs
\* without any device or storage fault.)
C1_ChunksReassemble ==
  (ServerIdle /\ faults = 0) =>
    \A i \in 1..Len(popped) :
      /\ popped[i].chunk.seq = popped[i].seq
      /\ popped[i].chunk.off = 0
      /\ popped[i].chunk.len = popped[i].total

\* C2: a poll deletes a Segment's storage only when, with the chunk it returns, no
\* undelivered bytes of that file remain.  (Stated for runs without any device or
\* storage fault.)
C2_DeleteOnlyWhenDrained ==
  [][\A n \in FileNames :
       (main_pc = "rv_remove" /\ faults = 0 /\ files[n].exists /\ ~files'[n].exists)
         => value.off + value.len = FileLen(files[n])]_vars

\* C3: between StartNotify / StopNotify calls, capture is active if and only if the
\* subscriber set is non-empty.
C3_ActiveIffSubscribed ==
  ServerIdle => ((clients # {}) <=> CaptureActive)

\* the queue's side of C4: file names are taken from the queue in the order of their
\* Segments' completion, each once, and a name is in the queue only after its Segment's
\* file was written and closed
C4_References ==
  /\ \A i, j \in 1..Len(popped) : i < j => popped[i].seq < popped[j].seq
  /\ \A i, j \in 1..Len(file_queue) : i < j => file_queue[i].seq < file_queue[j].seq
  /\ \A i \in 1..Len(popped) : \A j \in 1..Len(file_queue) :
       popped[i].seq < file_queue[j].seq
  /\ \A i \in 1..Len(popped) : popped[i].seq \in closedSegs
  /\ \A j \in 1..Len(file_queue) : file_queue[j].seq \in closedSegs

\* C4: Segments reach the poll side in the order of their completion, each once, and
\* the file a poll reads for the name it has taken is that of a Segment which has been
\* written and closed: no bytes of an unfinished file are returned.
C4_FifoOnceClosed ==
  /\ C4_References
  /\ \A i \in 1..Len(popped) :
       popped[i].chunk.len > 0 => popped[i].chunk.seq \in closedSegs

\* C5: StartNotify calls start_recording only when the subscriber set was empty before.
C5_StartOnlyFromEmpty ==
  (ev.op = "StartNotify" /\ ev.called = "start_recording") => ev.npre = 0

\* C6, the states: StopNotify calls stop_recording exactly when it leaves the subscriber
\* set empty; after the StopNotify of one of two subscribed sessions the recorder is
\* recording and its thread runs.
C6_AfterStop ==
  ev.op = "StopNotify" =>
    /\ (ev.called = "stop_recording") <=> (clients = {})
    /\ (ev.npre = 2 /\ ev.member) =>
         /\ ev.called = "none"
         /\ main_pc = "idle"
         /\ is_recording
         /\ recording_thread # 0
         /\ Alive(recording_thread)

\* C6, the steps: the StopNotify of one of two subscribed sessions changes nothing of
\* the recorder.
C6_Step ==
  (ev'.op = "StopNotify" /\ main_pc = "idle" /\ Cardinality(clients) = 2
     /\ clients' # clients)
    => UNCHANGED <<recorderSide, main_pc>>

\* C6: with two sessions subscribed, the StopNotify of one does not call stop_recording
\* and leaves capture as it was, active; stop_recording is called only by the
\* StopNotify that leaves the subscriber set empty.
C6_StopOnlyWhenEmpty ==
  []C6_AfterStop /\ [][C6_Step]_vars

\* C6 witness: one of two subscribed sessions has just unsubscribed
C6_Witness ==
  ev.op = "StopNotify" /\ ev.npre = 2 /\ ev.member

\* C7, the states: after start_recording returns, the recorder is recording with exactly
\* one capture thread; after stop_recording returns, it is not recording and no capture
\* thread runs.
C7_AfterCall ==
  /\ (ev.called = "start_recording" /\ ev.ret = "return") =>
       /\ is_recording
       /\ LiveThreads = {recording_thread}
  /\ (ev.called = "stop_recording" /\ ev.ret = "return") =>
       /\ ~is_recording
       /\ LiveThreads = {}

\* C7, the steps: start_recording called while recording, and stop_recording called
\* while not recording, change nothing of the recorder.
C7_SecondCall ==
  /\ (ev'.called = "start_recording" /\ ev'.op # "join_return" /\ is_recording)
       => UNCHANGED <<recorderSide, main_pc>>
  /\ (ev'.called = "stop_recording" /\ ev'.op # "join_return" /\ ~is_recording)
       => UNCHANGED <<recorderSide, main_pc>>

\* C7: start_recording twice in a row is start_recording once (one capture thread,
\* is_recording true), stop_recording twice in a row is stop_recording once (no capture
\* thread, is_recording false); the second call changes nothing.
C7_Idempotent ==
  []C7_AfterCall /\ [][C7_SecondCall]_vars

\* C7 witness: start_recording has just been called on a recorder that was recording
\* (the sole subscriber subscribed again)
C7_Witness ==
  /\ ev.op = "StartNotify" /\ ev.called = "start_recording" /\ ev.npre > 0
  /\ is_recording /\ LiveThreads = {recording_thread}

\* C8: as long as no session has subscribed, no capture thread was ever started, the
\* recorder is not recording, the queue is empty and a ReadValue returns [].
C8_NoSubscriberNoCapture ==
  (prog = "server" /\ ~subscribed) =>
    /\ nthreads = 0
    /\ ~is_recording
    /\ LiveThreads = {}
    /\ file_queue = <<>>
    /\ main_pc = "idle"
    /\ ev.op = "ReadValue" => (ev.ret = "empty" /\ ev.len = 0)

\* C8 witness: a poll has been answered and nobody ever subscribed
C8_Witness ==
  prog = "server" /\ ~subscribed /\ ev.op = "ReadValue"

\* the steps of thread t through the tail of a time-box that a break ended with k >= 1
\* blocks: the stream is closed, the file is opened, the k blocks are written to it and
\* it is closed, its name is queued, and the loop is back at its head.  (A storage fault,
\* counted in faults, abandons the Segment instead.)
FlushSteps(t) ==
  LET a == thr[t]
      b == thr'[t]
  IN  /\ a.pc = "close" => (b.pc = "wopen" /\ b.frames = a.frames /\ ~b.stream)
      /\ a.pc = "wopen" =>
           \/ /\ b.pc = "write" /\ b.frames = a.frames
              /\ files'[a.ts] = [seq |-> a.seq, nblocks |-> a.frames, closed |-> FALSE,
                                 exists |-> TRUE]
           \/ b.pc = "while" /\ faults' = faults + 1
      /\ a.pc = "write" =>
           \/ /\ b.pc = "put" /\ b.frames = a.frames
              /\ a.seq \in closedSegs'
              /\ files[a.ts].exists =>
                   files'[a.ts] = [seq |-> a.seq, nblocks |-> a.frames, closed |-> TRUE,
                                   exists |-> TRUE]
           \/ b.pc = "while" /\ faults' = faults + 1
      /\ a.pc = "put" =>
           /\ b.pc = "while"
           /\ file_queue' = Append(file_queue,
                              [fn |-> a.ts, seq |-> a.seq, nblocks |-> a.frames])

\* C9, the steps of one thread
C9_Step(t) ==
  LET a == thr[t]
      b == thr'[t]
  IN  /\ (a.pc = "read" /\ b.why = "readerr") => (b.pc = "close" /\ b.frames = a.frames)
      /\ (a.why = "readerr" /\ a.frames >= 1 /\ b # a) =>
           /\ FlushSteps(t)
           /\ a.pc = "while" => b.pc = (IF is_recording THEN "open" ELSE "done")

\* C9: a failed block read after k >= 1 blocks ends the time-box; its k blocks are
\* written to the Segment's file, the file is closed and queued, and the loop then goes
\* on to open a new time-box unless a stop was requested.
C9_ReadErrorTruncates ==
  [][\A t \in Threads : C9_Step(t)]_vars

\* C9 witness: the Segment cut short by a read error is queued with its k blocks and
\* its thread is opening the next time-box
C9_Witness ==
  \E t \in Threads :
    /\ thr[t].why = "readerr" /\ thr[t].frames >= 1 /\ thr[t].pc = "open"
    /\ \E i \in 1..Len(file_queue) :
         /\ file_queue[i].seq = thr[t].seq
         /\ file_queue[i].nblocks = thr[t].frames
         /\ files[file_queue[i].fn] = [seq |-> thr[t].seq, nblocks |-> thr[t].frames,
                                       closed |-> TRUE, exists |-> TRUE]

\* C10, the steps of one thread
C10_Step(t) ==
  LET a == thr[t]
      b == thr'[t]
  IN  /\ (a.pc = "for" /\ b.why = "stop") =>
           (~is_recording /\ b.pc = "close" /\ b.frames = a.frames)
      /\ (a.why = "stop" /\ b # a) =>
           /\ a.frames >= 1 => FlushSteps(t)
           /\ (a.frames = 0 /\ a.pc = "close") =>
                (b.pc = "while" /\ UNCHANGED <<files, file_queue>>)
           /\ a.pc = "while" => b.pc = "done"

\* C10: a stop seen in the middle of a time-box ends it; the blocks captured so far, if
\* any, are written and queued as one Segment, and the loop then exits without opening
\* another time-box.
C10_StopFlushesAndExits ==
  [][\A t \in Threads : C10_Step(t)]_vars

\* C10 witness: no fault has occurred, the thread has ended, and a Segment shorter than
\* a full time-box (the one a stop cut short) is queued
C10_Witness ==
  /\ faults = 0
  /\ \E t \in Threads : thr[t].pc = "done"
  /\ \E i \in 1..Len(file_queue) :
       file_queue[i].nblocks >= 1 /\ file_queue[i].nblocks < BlocksPerBox

\* C11: when the capture device cannot be opened at start, start_recording raises to
\* its caller, and the recorder is then not recording and has no capture thread running.
\* In record.py the device is opened by start_recording itself; in server.py it is first
\* opened by the thread that start_recording has started (a thread that has opened no
\* time-box yet has seq = 0).
C11_StartFailureReported ==
  [][/\ (ev'.op = "start_recording" /\ ev'.ret = "raise") =>
          (~is_recording' /\ \A t \in Threads : thr'[t].pc \in {"unborn", "done"})
     /\ \A t \in Threads :
          (prog = "server" /\ thr[t].pc = "open" /\ thr[t].seq = 0
             /\ thr'[t].pc = "while")
            => (~is_recording' /\ thr'[t].pc = "done" /\ ev'.ret = "raise")]_vars

\* C12: every ReadValue poll ends by returning 0..512 bytes (queue empty, file missing,
\* or the chunk read, whether or not the delete worked); none ends by raising.
C12_PollNeverRaises ==
  ev.op = "ReadValue" =>
    /\ ev.ret \in {"empty", "missing", "data"}
    /\ ev.len \in 0..ReadSize

\* C13, the states: when stop_recording returns, the recorder is not recording and no
\* capture thread is running.
C13_AfterReturn ==
  (ev.called = "stop_recording" /\ ev.ret = "return") =>
    (~is_recording /\ LiveThreads = {} /\ main_pc = "idle")

\* C13, the steps: once the flag is cleared the loop begins no further block read and
\* no further time-box; while the recorder is stopped and stop_recording is not waiting,
\* nothing is added to the queue.
C13_Step ==
  /\ \A t \in Threads :
       (~is_recording /\ ~is_recording') =>
         /\ thr[t].pc = "for" => thr'[t].pc \in {"for", "close"}
         /\ thr[t].pc = "while" => thr'[t].pc \in {"while", "done"}
  /\ (~is_recording /\ main_pc = "idle" /\ ~is_recording') =>
       Len(file_queue') <= Len(file_queue)

\* C13: stop_recording, once it waits in join(), returns; when it has returned no
\* capture thread runs and nothing more is queued until the next start; after the flag
\* is cleared the loop finishes at most the block read in progress.
C13_StopTerminates ==
  /\ (main_pc = "join") ~> (main_pc = "idle")
  /\ []C13_AfterReturn
  /\ [][C13_Step]_vars

\* C13 witness: join() has returned for a thread that was stopped in the middle of a
\* time-box, whose blocks are queued
C13_Witness ==
  /\ ev.op = "join_return" /\ LiveThreads = {}
  /\ \E i \in 1..Len(file_queue) : file_queue[i].nblocks < BlocksPerBox

\* C14: a poll that has found the queue non-empty finds it non-empty at its get(), in
\* ReadValue and in get_next_file alike: get() never waits.
C14_GetNeverBlocks ==
  main_pc \in {"rv_get", "gnf_get"} => file_queue # <<>>

\* C14 witness: a poll is between empty() and get() while the capture thread is about
\* to put a file name
C14_Witness ==
  /\ main_pc \in {"rv_get", "gnf_get"}
  /\ \E t \in Threads : thr[t].pc = "put"

\* C15, the steps: a time-box that ends with no block goes back to the head of the loop
\* with nothing written and nothing queued.
C15_Step ==
  \A t \in Threads :
    (thr[t].pc = "close" /\ thr[t].frames = 0 /\ thr'[t] # thr[t]) =>
      (thr'[t].pc = "while" /\ UNCHANGED <<files, file_queue, closedSegs>>)

\* C15, the states: every queued Segment, and every file in storage, has at least one
\* block.
C15_Queued ==
  /\ \A i \in 1..Len(file_queue) : file_queue[i].nblocks >= 1
  /\ \A n \in FileNames : files[n].exists => files[n].nblocks >= 1

\* C15: every Segment in the queue holds at least one captured block; a time-box that
\* ends with zero blocks is neither written to storage nor queued.
C15_NoEmptySegment ==
  []C15_Queued /\ [][C15_Step]_vars

\* C15 witness: a time-box has ended with no block (stop seen before the first read, or
\* the first read failed) and its thread is back at the head of the loop
C15_Witness ==
  \E t \in Threads :
    /\ thr[t].pc = "while" /\ thr[t].seq > 0 /\ thr[t].frames = 0
    /\ thr[t].why \in {"stop", "readerr"}

\* C16: when wave.open or the writing of a Segment's file fails, the Segment is not
\* queued, no file of that Segment is left in storage, and the thread is back at the
\* head of the loop.
C16_WriteFailureAbandons ==
  [][\A t \in Threads :
       (thr[t].pc \in {"wopen", "write"} /\ thr'[t].pc = "while") =>
         /\ file_queue' = file_queue
         /\ ~(files'[thr[t].ts].exists /\ files'[thr[t].ts].seq = thr[t].seq)]_vars

\* thread t is in a time-box: its Segment has its file name and is being captured or
\* written
InTimeBox(t) == thr[t].pc \in {"for", "read", "close", "wopen", "write", "put"}

\* C17: no two Segments that are in their time-box or queued at the same time have the
\* same file name: the queue holds no name twice, and no time-box has the name of a
\* queued Segment.
C17_OwnStorage ==
  /\ \A i, j \in 1..Len(file_queue) : i < j => file_queue[i].fn # file_queue[j].fn
  /\ \A t \in Threads : InTimeBox(t) =>
       \A i \in 1..Len(file_queue) : file_queue[i].fn # thr[t].ts

\* a later start cycle is under way: start_recording has started a thread after an
\* earlier one (which takes a stop_recording in between)
Resumed == is_recording /\ recording_thread >= 2

\* C18: after a stop and a new subscribe, the capture thread of the new cycle gets to
\* queue a Segment, unless the device or the storage fails or a stop is requested first.
\* (Stated for the time-boxes the model has room for.)
C18_ResumeAfterResubscribe ==
  [](((prog = "server" /\ Resumed /\ faults = 0 /\ nboxes < MaxBoxes))
       => <>(\/ \E t \in Threads : t = recording_thread /\ thr[t].pc = "put"
             \/ ~is_recording
             \/ faults > 0))

\* C19: at most one capture thread is alive at any time, and it is the one of the
\* current cycle; while no handler is running, a thread is alive exactly when the
\* recorder is recording.
C19_OneCaptureThread ==
  /\ Cardinality(LiveThreads) <= 1
  /\ LiveThreads \subseteq {recording_thread}
  /\ main_pc = "idle" => (is_recording <=> LiveThreads # {})

\* C19 witness: after subscribe, unsubscribe and subscribe, the second thread runs and
\* the first has ended
C19_Witness ==
  /\ nthreads = 2
  /\ LiveThreads = {2}
  /\ thr[1].pc = "done"

\* the threads whose `stream` is open
OpenStreams == {t \in Threads : thr[t].stream}

\* C20, the steps: a thread opens a stream only when none is open, and the step that
\* ends a time-box's reading (full box, stop, read error) is followed by the close.
C20_Step ==
  \A t \in Threads :
    /\ (~thr[t].stream /\ thr'[t].stream) => OpenStreams = {}
    /\ (thr[t].stream /\ ~thr'[t].stream) => thr[t].pc = "close"

\* C20, the states: at most one stream is open; a stream is open only inside the
\* reading part of a time-box, so it is closed before the file is written, before the
\* next time-box and before the loop exits; none is open once stop_recording returned.
C20_Open ==
  /\ Cardinality(OpenStreams) <= 1
  /\ \A t \in Threads : thr[t].stream <=> thr[t].pc \in {"for", "read", "close"}
  /\ (ev.called = "stop_recording" /\ ev.ret = "return") => OpenStreams = {}

\* C20: at most one capture stream is open at any time; every stream opened for a
\* time-box is closed before the next one is opened and before the loop exits, on every
\* path; after stop_recording returns none is open.
C20_OneStreamClosed ==
  []C20_Open /\ [][C20_Step]_vars

\* C20 witness: the second time-box has its stream open after the first one, ended by
\* a read error, closed its own
C20_Witness ==
  \E t \in Threads : thr[t].seq = 2 /\ thr[t].stream /\ faults > 0

\* a step of a ReadValue poll, or a step taken while a poll is under way
PollStep ==
  \/ ev'.op = "ReadValue"
  \/ main_pc \in {"rv_get", "rv_remove"}
  \/ main_pc' \in {"rv_get", "rv_remove"}

====
